---- MODULE Spec2Model ----
(***************************************************************************)
(* A model of the Hydra file server: the connection handler of             *)
(* peer_server.py, the download client of peer_client.py and the peer      *)
(* directory of config.py.                                                 *)
(*                                                                         *)
(* Text (commands, headers, file names) is a sequence of tokens: a token   *)
(* is one character (":", " ", a digit, a letter) or one keyword whose     *)
(* inner characters no operation of the code looks at.  Bytes are small    *)
(* integers.  A file on disk is a record [exists, bytes].                  *)
(***************************************************************************)
EXTENDS Integers, Sequences, FiniteSets, TLC

\* ---------------------------------------------------------------- bounds
MaxFileLen == 3
ChunkLen == 2
RecvBuf == 2
NumConns == 2

\* ------------------------------------------------------------- constants
\* the descriptor of config.py's placeholder index has no 'id' and no 'offset'
NoKey == -1

Byte == {0, 1}

Min(a, b) == IF a < b THEN a ELSE b

RECURSIVE SeqsUpTo(_, _)
SeqsUpTo(S, n) ==
    IF n = 0 THEN {<<>>}
    ELSE LET shorter == SeqsUpTo(S, n - 1)
         IN  shorter \cup {Append(s, x) : s \in {t \in shorter : Len(t) = n - 1}, x \in S}

Range(s) == {s[i] : i \in 1..Len(s)}

\* ------------------------------------------------------------------ text
WS == {" "}
Digits == <<"0", "1", "2", "3", "4", "5", "6", "7", "8", "9">>
IsDigit(t) == \E i \in 1..10 : Digits[i] = t
DigitVal(t) == (CHOOSE i \in 1..10 : Digits[i] = t) - 1

\* str.lstrip / str.rstrip / str.strip on whitespace
RECURSIVE LStrip(_)
LStrip(s) == IF s # <<>> /\ Head(s) \in WS THEN LStrip(Tail(s)) ELSE s
RECURSIVE RStrip(_)
RStrip(s) ==
    IF s # <<>> /\ s[Len(s)] \in WS THEN RStrip(SubSeq(s, 1, Len(s) - 1)) ELSE s
Strip(s) == RStrip(LStrip(s))

\* str.startswith
StartsWith(s, p) == Len(s) >= Len(p) /\ SubSeq(s, 1, Len(p)) = p

\* str.split(":"): the fields between the separators, empty fields kept
RECURSIVE SplitAcc(_, _, _)
SplitAcc(s, cur, acc) ==
    IF s = <<>> THEN Append(acc, cur)
    ELSE IF Head(s) = ":" THEN SplitAcc(Tail(s), <<>>, Append(acc, cur))
    ELSE SplitAcc(Tail(s), Append(cur, Head(s)), acc)
Split(s) == SplitAcc(s, <<>>, <<>>)

\* int(text): surrounding whitespace is ignored, the rest must be digits
IsIntText(s) == Strip(s) # <<>> /\ \A i \in 1..Len(Strip(s)) : IsDigit(Strip(s)[i])
RECURSIVE DecVal(_)
DecVal(s) == IF s = <<>> THEN 0 ELSE 10 * DecVal(SubSeq(s, 1, Len(s) - 1)) + DigitVal(s[Len(s)])
ParseInt(s) == DecVal(Strip(s))

\* str(n) of a non-negative integer
RECURSIVE IntToText(_)
IntToText(n) == IF n < 10 THEN <<Digits[n + 1]>> ELSE Append(IntToText(n \div 10), Digits[(n % 10) + 1])

\* ---------------------------------------------------------------- hashes
\* hashlib.sha256 of a byte string, taken as collision free: the bits of the
\* string behind a leading 1, read as a number.
RECURSIVE Sha256(_)
Sha256(b) == IF b = <<>> THEN 1 ELSE 2 * Sha256(SubSeq(b, 1, Len(b) - 1)) + b[Len(b)]

\* ----------------------------------------------------------------- files
NoFile == [exists |-> FALSE, bytes |-> <<>>]
File(b) == [exists |-> TRUE, bytes |-> b]

\* f.seek(offset); f.read(size)
ReadAt(b, offset, size) ==
    IF offset >= Len(b) THEN <<>> ELSE SubSeq(b, offset + 1, Min(Len(b), offset + size))

\* ------------------------------------------------------- UTF-8 and JSON
\* str.encode('utf-8'): one byte for an ASCII character, two for e-acute
Utf8Width(ch) == IF ch = "U+00E9" THEN 2 ELSE 1
RECURSIVE Utf8Len(_)
Utf8Len(t) == IF t = <<>> THEN 0 ELSE Utf8Width(Head(t)) + Utf8Len(Tail(t))

\* the separators json.dumps writes between the elements of a list
RECURSIVE JoinTexts(_)
JoinTexts(ts) ==
    IF ts = <<>> THEN <<>>
    ELSE IF Len(ts) = 1 THEN ts[1]
    ELSE ts[1] \o <<",", " ">> \o JoinTexts(Tail(ts))

Quoted(t) == <<"\"">> \o t \o <<"\"">>

\* json.dumps of a list of strings
DumpsList(l) == <<"[">> \o JoinTexts([i \in 1..Len(l) |-> Quoted(l[i])]) \o <<"]">>

\* --------------------------------------------------------- content index
\* The names the model shares: "a" is an indexed file, "t" is test_doc.txt.
NameA == <<"a">>
NameT == <<"t">>
Names == <<NameA, NameT>>

Desc(id, offset, size, hash) == [id |-> id, offset |-> offset, size |-> size, hash |-> hash]

\* index_file(path): contiguous chunks of ChunkLen bytes, the last one shorter
RECURSIVE IndexChunks(_, _)
IndexChunks(b, id) ==
    LET offset == id * ChunkLen
    IN  IF offset >= Len(b) THEN <<>>
        ELSE <<Desc(id, offset, Min(ChunkLen, Len(b) - offset),
                    Sha256(ReadAt(b, offset, ChunkLen)))>> \o IndexChunks(b, id + 1)
IndexFile(b) == [total_size |-> Len(b), chunks |-> IndexChunks(b, 0)]

\* ensure_initial_setup: the entry it writes for test_doc.txt, whose one
\* descriptor has a 'hash' and a 'size' and neither 'id' nor 'offset'
PlaceholderEntry(b) ==
    [total_size |-> Len(b), chunks |-> <<Desc(NoKey, NoKey, ChunkLen, 0)>>]

\* local_index.json: missing, or the (name, entry) pairs of a JSON object
NoIndex == [exists |-> FALSE, files |-> <<>>]
IndexOf(files) == [exists |-> TRUE, files |-> files]
Named(name, entry) == [name |-> name, entry |-> entry]
InIndex(idx, name) == \E i \in 1..Len(idx.files) : idx.files[i].name = name
EntryOf(idx, name) ==
    idx.files[CHOOSE i \in 1..Len(idx.files) : idx.files[i].name = name].entry

\* FILE_DIRECTORY: the file stored under a name, if any
DiskFile(dsk, name) == IF name \in DOMAIN dsk THEN dsk[name] ELSE NoFile

\* ------------------------------------------------------------- messages
\* What one sendall puts on a connection: a text (a command, a header, an
\* error), a JSON payload or raw chunk bytes.
TextMsg(t) == [kind |-> "text", text |-> t, bytes |-> <<>>]
JsonMsg(t) == [kind |-> "json", text |-> t, bytes |-> <<>>]
BytesMsg(b) == [kind |-> "bytes", text |-> <<>>, bytes |-> b]
NBytes(m) == IF m.kind = "bytes" THEN Len(m.bytes) ELSE Utf8Len(m.text)

ErrorMsg(reason) == TextMsg(<<reason>>)
UNKNOWN_COMMAND == ErrorMsg("ERROR: Unknown command.")
INTERNAL_SERVER_ERROR == ErrorMsg("ERROR: INTERNAL_SERVER_ERROR")
INDEX_NOT_FOUND == ErrorMsg("ERROR: INDEX_NOT_FOUND")
FILENAME_NOT_IN_INDEX == ErrorMsg("ERROR: FILENAME_NOT_IN_INDEX")
CHUNK_ID_NOT_FOUND == ErrorMsg("ERROR: CHUNK_ID_NOT_FOUND")
FILE_MISSING_ON_DISK == ErrorMsg("ERROR: FILE_MISSING_ON_DISK")
IsError(m) == m.kind = "text" /\ Len(m.text) = 1 /\ m \in
    {UNKNOWN_COMMAND, INTERNAL_SERVER_ERROR, INDEX_NOT_FOUND, FILENAME_NOT_IN_INDEX,
     CHUNK_ID_NOT_FOUND, FILE_MISSING_ON_DISK}

\* f"CHUNK_READY:{id}:{size}:{hash}"
ChunkReadyHeader(c) ==
    TextMsg(<<"CHUNK_READY", ":">> \o IntToText(c.id) \o <<":">> \o IntToText(c.size)
            \o <<":">> \o IntToText(c.hash))
\* f"<KIND>_SIZE:{n}"
SizeHeader(kind, n) == TextMsg(<<kind, ":">> \o IntToText(n))

\* the commands
REQUEST_FILE_LIST == <<"REQUEST_FILE_LIST">>
REQUEST_PEER_LIST == <<"REQUEST_PEER_LIST">>
REPORT_AVAILABILITY == <<"REPORT_AVAILABILITY">>
REQUEST_CHUNK_PREFIX == <<"REQUEST_CHUNK", ":">>
\* f"REQUEST_CHUNK:{filename}:{chunk_id}"
ChunkCommand(filename, id) == REQUEST_CHUNK_PREFIX \o filename \o <<":">> \o IntToText(id)
READY == <<"READY">>

\* ------------------------------------------------ the REQUEST_CHUNK branch
\* next((c for c in chunks if c['id'] == rid), None): the position of the
\* first descriptor with the id, 0 for None, -1 when c['id'] raises KeyError
\* on a descriptor met before any match
RECURSIVE FindChunk(_, _, _)
FindChunk(chunks, rid, i) ==
    IF i > Len(chunks) THEN 0
    ELSE IF chunks[i].id = NoKey THEN -1
    ELSE IF chunks[i].id = rid THEN i
    ELSE FindChunk(chunks, rid, i + 1)

Failed(m) == [ok |-> FALSE, first |-> m, data |-> <<>>]

\* What the branch decides for the command text `data`: the error it sends, or
\* the header it sends first and the bytes it read for the payload.
ServeChunk(data, idx, dsk) ==
    LET parts == Split(data)
    IN  IF Len(parts) < 3 THEN Failed(INTERNAL_SERVER_ERROR)            \* IndexError
        ELSE IF ~IsIntText(parts[3]) THEN Failed(INTERNAL_SERVER_ERROR) \* ValueError
        ELSE IF ~idx.exists THEN Failed(INDEX_NOT_FOUND)
        ELSE IF ~InIndex(idx, parts[2]) THEN Failed(FILENAME_NOT_IN_INDEX)
        ELSE LET chunks == EntryOf(idx, parts[2]).chunks
                 k == FindChunk(chunks, ParseInt(parts[3]), 1)
             IN  IF k = -1 THEN Failed(INTERNAL_SERVER_ERROR)           \* KeyError
                 ELSE IF k = 0 THEN Failed(CHUNK_ID_NOT_FOUND)
                 ELSE IF ~DiskFile(dsk, parts[2]).exists THEN Failed(FILE_MISSING_ON_DISK)
                 ELSE IF chunks[k].offset = NoKey THEN Failed(INTERNAL_SERVER_ERROR)
                 ELSE [ok |-> TRUE, first |-> ChunkReadyHeader(chunks[k]),
                       data |-> ReadAt(DiskFile(dsk, parts[2]).bytes,
                                       chunks[k].offset, chunks[k].size)]

\* ------------------------------------------------- the other branches
\* One descriptor and one entry as the index file's JSON text; a key the
\* descriptor lacks is not written.
DescText(c) ==
    <<"{">> \o (IF c.id = NoKey THEN <<>> ELSE IntToText(c.id) \o <<",">>)
            \o (IF c.offset = NoKey THEN <<>> ELSE IntToText(c.offset) \o <<",">>)
            \o IntToText(c.size) \o <<",">> \o Quoted(IntToText(c.hash)) \o <<"}">>
EntryText(e) ==
    <<"{">> \o IntToText(e.total_size) \o <<",", "[">>
            \o JoinTexts([i \in 1..Len(e.chunks) |-> DescText(e.chunks[i])]) \o <<"]", "}">>
\* the text of local_index.json, "{}" when the file is missing
IndexText(idx) ==
    IF ~idx.exists THEN <<"{", "}">>
    ELSE <<"{">> \o JoinTexts([i \in 1..Len(idx.files) |->
                      Quoted(idx.files[i].name) \o <<":", " ">> \o EntryText(idx.files[i].entry)])
                 \o <<"}">>

\* get_local_hosted_hashes: every chunk hash of every file of the index
RECURSIVE HashesOf(_)
HashesOf(files) ==
    IF files = <<>> THEN <<>>
    ELSE [i \in 1..Len(files[1].entry.chunks) |-> files[1].entry.chunks[i].hash]
         \o HashesOf(Tail(files))
get_local_hosted_hashes(idx) == IF ~idx.exists THEN <<>> ELSE HashesOf(idx.files)

\* -------------------------------------------------------- peer directory
HOST_YGGDRASIL_IP == "L"
Addresses == {"L", "P", "Q"}

\* known_peers.json: missing, a JSON list of addresses, or (written by hand)
\* the JSON object {}
NoPeerFile == [exists |-> FALSE, json |-> "list", list |-> <<>>]
PeerFileOf(l) == [exists |-> TRUE, json |-> "list", list |-> l]
PeerFileObject == [exists |-> TRUE, json |-> "object", list |-> <<>>]

load_peers(pf) == IF ~pf.exists THEN <<>> ELSE pf.list

\* list(set(peers)): each address once (in the order of first occurrence: the
\* order of a Python set is arbitrary and nothing here depends on it)
RECURSIVE Unique(_)
Unique(l) ==
    IF l = <<>> THEN <<>>
    ELSE LET init == Unique(SubSeq(l, 1, Len(l) - 1))
         IN  IF l[Len(l)] \in Range(init) THEN init ELSE Append(init, l[Len(l)])

\* save_peers without list(set(peers))
SavePeersKeepingDuplicates(host, peers) ==
    PeerFileOf(IF host \notin Range(peers) THEN Append(peers, host) ELSE peers)

\* save_peers(peers) on the peer whose HOST_YGGDRASIL_IP is host: the file it
\* writes
SavePeersAt(host, peers) ==
    LET unique_peers == Unique(peers)
    IN  PeerFileOf(IF host \notin Range(unique_peers)
                   THEN Append(unique_peers, host)
                   ELSE unique_peers)
save_peers(peers) == SavePeersAt(HOST_YGGDRASIL_IP, peers)

\* json.dumps(current_peers)
PeersText(l) == DumpsList([i \in 1..Len(l) |-> <<l[i]>>])

\* ------------------------------------------------------------ the state
VARIABLES
    index,      \* local_index.json
    disk,       \* FILE_DIRECTORY: name -> file
    peerFile,   \* known_peers.json
    saved,      \* whether save_peers has written known_peers.json
    h,          \* per connection: the handler thread (its place and its locals)
    sock,       \* per connection: the socket pair
    gpc,        \* PeerGossiper.run: where the thread is
    gtargets,   \* PeerGossiper.run: the peers of this cycle not yet visited
    gstop,      \* PeerGossiper.stop_event
    gdone,      \* the peers whose exchange succeeded in this cycle
    gtried,     \* the peers exchange_peers was called with in this cycle
    remote,     \* the known_peers.json of each remote peer
    returned,   \* the peer list each remote peer's handler answered last
    dpc,        \* start_download_manager: where the download is
    chunks,     \* the descriptors of the file being downloaded
    di,         \* the position in `chunks` of the descriptor being fetched
    parts,      \* DOWNLOAD_DIRECTORY: chunk id -> partial file
    outfile,    \* DOWNLOAD_DIRECTORY: the file at the final path
    received_bytes, \* download_chunk: bytes written so far
    hasher,     \* download_chunk: the bytes fed to the running hash
    results,    \* what each download_chunk call returned, in order
    dlog,       \* what the download did on the network and reported
    ls          \* get_remote_file_list: where the call is and its locals

server_vars == <<index, disk, peerFile, saved>>
handler_vars == <<h, sock>>
gossip_vars == <<gpc, gtargets, gstop, gdone, gtried, remote, returned>>
dl_vars == <<dpc, chunks, di, parts, outfile, received_bytes, hasher, results, dlog, ls>>
vars == <<server_vars, handler_vars, gossip_vars, dl_vars>>

Conns == DOMAIN h

\* A handler thread: pc is its place in the per-connection state machine and
\* step the place inside that state; data is the command text, payload what
\* is sent after the acknowledgement, peers is current_peers, and reads counts
\* the commands it has read.  The locals are gone when the thread has ended.
Thread(pc, reads) ==
    [pc |-> pc, step |-> "", data |-> <<>>, payload |-> BytesMsg(<<>>), peers |-> <<>>,
     reads |-> reads]

\* A socket pair: the peer's address, the bytes the client has sent and the
\* handler has not read, the client's end (open, closed, reset), how many
\* sends the client made, everything the handler has sent, whether the
\* handler has closed its end, and the text its first recv returned, if any.
NewSock(p) == [peer |-> p, c2s |-> <<>>, cli |-> "open", nsent |-> 0,
               sent |-> <<>>, closed |-> FALSE, got |-> FALSE, rx |-> <<>>]

\* client_socket.recv(1024) returns: there are bytes, or the client is gone
RecvReady(c) == sock[c].c2s # <<>> \/ sock[c].cli # "open"
\* recv and sendall raise on a connection the client has reset
Raises(c) == sock[c].cli = "reset"

\* finally: client_socket.close(), and the thread ends
Finally(c) ==
    /\ h' = [h EXCEPT ![c] = Thread("CLOSED", h[c].reads)]
    /\ sock' = [sock EXCEPT ![c].closed = TRUE]

\* The outer except: the exception is printed, nothing is sent; then finally.
\* The ended thread's step tells that it ended here.
Except(c) ==
    /\ h' = [h EXCEPT ![c] = [Thread("CLOSED", h[c].reads) EXCEPT !.step = "except"]]
    /\ sock' = [sock EXCEPT ![c].closed = TRUE]

\* a dispatch that takes every text starting with REQUEST_CHUNK for a chunk
\* request
DispatchByKeyword(data) ==
    IF data = REQUEST_FILE_LIST THEN "LIST"
    ELSE IF StartsWith(data, <<"REQUEST_CHUNK">>) THEN "CHUNK"
    ELSE IF data = REQUEST_PEER_LIST THEN "PEER_LIST"
    ELSE IF data = REPORT_AVAILABILITY THEN "AVAILABILITY"
    ELSE "ERROR"

\* data == "REQUEST_FILE_LIST" / data.startswith("REQUEST_CHUNK:") / ...
Dispatch(data) ==
    IF data = REQUEST_FILE_LIST THEN "LIST"
    ELSE IF StartsWith(data, REQUEST_CHUNK_PREFIX) THEN "CHUNK"
    ELSE IF data = REQUEST_PEER_LIST THEN "PEER_LIST"
    ELSE IF data = REPORT_AVAILABILITY THEN "AVAILABILITY"
    ELSE "ERROR"

\* start_server: accept a connection, whose socket pair is in state s, and
\* start its handler thread
AcceptWith(c, s) ==
    /\ h[c].pc \in {"FREE", "CLOSED"}
    /\ h' = [h EXCEPT ![c] = Thread("ACCEPTED", 0)]
    /\ sock' = [sock EXCEPT ![c] = s]
    /\ UNCHANGED <<gossip_vars, dl_vars, server_vars>>

\* an acceptance loop that runs the handler itself: it accepts when no
\* handler is under way
AcceptInline(c, p) ==
    /\ \A d \in Conns : h[d].pc \in {"FREE", "CLOSED"}
    /\ AcceptWith(c, NewSock(p))
Accept(c, p) == AcceptWith(c, NewSock(p))

\* handle_peer_connection starts to run and calls recv
HStart(c) ==
    /\ h[c].pc = "ACCEPTED"
    /\ h' = [h EXCEPT ![c].pc = "READ_COMMAND"]
    /\ UNCHANGED <<gossip_vars, dl_vars, server_vars, sock>>

\* data = client_socket.recv(1024).decode('utf-8').strip(), and the dispatch;
\* a raising recv goes to the outer except and to finally
HReadCommand(c) ==
    /\ h[c].pc = "READ_COMMAND"
    /\ RecvReady(c)
    /\ IF Raises(c)
       THEN /\ h' = [h EXCEPT ![c] = [Thread("CLOSED", h[c].reads + 1) EXCEPT
                                            !.step = "except"]]
            /\ sock' = [sock EXCEPT ![c].closed = TRUE]
       ELSE /\ h' = [h EXCEPT ![c].data = Strip(sock[c].c2s),
                              ![c].pc = Dispatch(Strip(sock[c].c2s)),
                              ![c].reads = @ + 1]
            /\ sock' = [sock EXCEPT ![c].c2s = <<>>, ![c].got = TRUE, ![c].rx = sock[c].c2s]
    /\ UNCHANGED <<gossip_vars, dl_vars, server_vars>>

\* The first sendall of a branch: message m, then payload p is due after the
\* acknowledgement (more = TRUE) or the response is complete; `peers` is the
\* branch's current_peers.  A raising sendall goes to except and finally (the
\* chunk branch's own except sends on the same connection and raises again).
Respond(c, m, more, p, peers) ==
    IF Raises(c)
    THEN Except(c)
    ELSE /\ sock' = [sock EXCEPT ![c].sent = Append(@, m)]
         /\ h' = [h EXCEPT ![c].pc = "RESPOND",
                           ![c].step = IF more THEN "ack" ELSE "fin",
                           ![c].payload = p,
                           ![c].peers = peers]

\* REQUEST_FILE_LIST
HList(c) ==
    /\ h[c].pc = "LIST"
    /\ Respond(c, SizeHeader("LIST_SIZE", Len(IndexText(index))), TRUE,
               JsonMsg(IndexText(index)), <<>>)
    /\ UNCHANGED <<gossip_vars, dl_vars, server_vars>>

\* REQUEST_CHUNK:<filename>:<id>
HChunk(c) ==
    /\ h[c].pc = "CHUNK"
    /\ LET r == ServeChunk(h[c].data, index, disk)
       IN  Respond(c, r.first, r.ok, BytesMsg(r.data), <<>>)
    /\ UNCHANGED <<gossip_vars, dl_vars, server_vars>>

\* REQUEST_PEER_LIST: current_peers = load_peers().  When the file holds the
\* object {}, json.load gives a dict: peer_ip is not in it and
\* current_peers.append raises AttributeError, which the outer except takes.
HPeerLoad(c) ==
    /\ h[c].pc = "PEER_LIST"
    /\ h[c].step = ""
    /\ IF peerFile.exists /\ peerFile.json = "object"
       THEN Except(c)
       ELSE /\ h' = [h EXCEPT ![c].peers = load_peers(peerFile), ![c].step = "loaded"]
            /\ UNCHANGED sock
    /\ UNCHANGED <<gossip_vars, dl_vars, server_vars>>

\* a handler that saves the new peer alone, not the list it loaded
HPeerSaveForgetting(c) ==
    /\ h[c].pc = "PEER_LIST"
    /\ h[c].step = "loaded"
    /\ LET known == sock[c].peer \in Range(h[c].peers)
           current_peers == IF known THEN h[c].peers ELSE Append(h[c].peers, sock[c].peer)
       IN  /\ peerFile' = IF known THEN peerFile ELSE save_peers(<<sock[c].peer>>)
           /\ saved' = (saved \/ ~known)
           /\ Respond(c, SizeHeader("PEER_LIST_SIZE", Len(PeersText(current_peers))), TRUE,
                      JsonMsg(PeersText(current_peers)), current_peers)
    /\ UNCHANGED <<gossip_vars, dl_vars, index, disk>>

\* REQUEST_PEER_LIST: learn the peer, save, send the header
HPeerSave(c) ==
    /\ h[c].pc = "PEER_LIST"
    /\ h[c].step = "loaded"
    /\ LET known == sock[c].peer \in Range(h[c].peers)
           current_peers == IF known THEN h[c].peers ELSE Append(h[c].peers, sock[c].peer)
       IN  /\ peerFile' = IF known THEN peerFile ELSE save_peers(current_peers)
           /\ saved' = (saved \/ ~known)
           /\ Respond(c, SizeHeader("PEER_LIST_SIZE", Len(PeersText(current_peers))), TRUE,
                      JsonMsg(PeersText(current_peers)), current_peers)
    /\ UNCHANGED <<gossip_vars, dl_vars, index, disk>>

\* REPORT_AVAILABILITY
HAvail(c) ==
    /\ h[c].pc = "AVAILABILITY"
    /\ LET hashes == get_local_hosted_hashes(index)
           hashes_json == DumpsList([i \in 1..Len(hashes) |-> IntToText(hashes[i])])
       IN  Respond(c, SizeHeader("HASH_LIST_SIZE", Len(hashes_json)), TRUE,
                   JsonMsg(hashes_json), <<>>)
    /\ UNCHANGED <<gossip_vars, dl_vars, server_vars>>

\* any other text
HUnknown(c) ==
    /\ h[c].pc = "ERROR"
    /\ Respond(c, UNKNOWN_COMMAND, FALSE, h[c].payload, <<>>)
    /\ UNCHANGED <<gossip_vars, dl_vars, server_vars>>

\* client_socket.recv(1024) for the acknowledgement (its result is not looked
\* at), then the sendall of the payload
HAck(c) ==
    /\ h[c].pc = "RESPOND"
    /\ h[c].step = "ack"
    /\ RecvReady(c)
    /\ IF Raises(c)
       THEN Except(c)
       ELSE /\ sock' = [sock EXCEPT ![c].c2s = <<>>, ![c].sent = Append(@, h[c].payload)]
            /\ h' = [h EXCEPT ![c].step = "fin"]
    /\ UNCHANGED <<gossip_vars, dl_vars, server_vars>>

\* a handler that ends without closing its socket
HCloseLeaving(c) ==
    /\ h[c].pc = "RESPOND"
    /\ h[c].step = "fin"
    /\ h' = [h EXCEPT ![c] = Thread("CLOSED", h[c].reads)]
    /\ UNCHANGED <<gossip_vars, dl_vars, server_vars, sock>>

\* the response is complete: finally
HClose(c) ==
    /\ h[c].pc = "RESPOND"
    /\ h[c].step = "fin"
    /\ Finally(c)
    /\ UNCHANGED <<gossip_vars, dl_vars, server_vars>>

\* ------------------------------------------------------ a remote client
\* Any peer may connect and send anything.  The texts tried: the commands as
\* they are, with surrounding whitespace, chunk requests for names and ids in
\* and out of the index, malformed chunk requests and other text.
ChunkIds == 0..MaxFileLen
CommandTexts ==
    {REQUEST_FILE_LIST, REQUEST_PEER_LIST, REPORT_AVAILABILITY,
     <<" ">> \o REQUEST_PEER_LIST, REQUEST_FILE_LIST \o <<" ">>,
     REQUEST_CHUNK_PREFIX, REQUEST_CHUNK_PREFIX \o NameA,
     REQUEST_CHUNK_PREFIX \o NameA \o <<":", "x">>,
     <<"REQUEST_CHUNK">>, <<"x">>, <<" ">>, READY}
    \cup {ChunkCommand(n, i) : n \in {NameA, NameT, <<"b">>}, i \in ChunkIds}
    \cup {<<" ">> \o ChunkCommand(NameA, 0), ChunkCommand(<<"a", ":", "b">>, 0)}

\* the client sends a command text
CliSend(c, t) ==
    /\ h[c].pc \notin {"FREE", "CLOSED"}
    /\ sock[c].cli = "open"
    /\ sock[c].nsent = 0
    /\ sock' = [sock EXCEPT ![c].c2s = @ \o t, ![c].nsent = 1]
    /\ UNCHANGED <<gossip_vars, dl_vars, server_vars, h>>

\* the client sends its acknowledgement
CliAck(c) ==
    /\ h[c].pc \notin {"FREE", "CLOSED"}
    /\ sock[c].cli = "open"
    /\ sock[c].nsent = 1
    /\ sock' = [sock EXCEPT ![c].c2s = @ \o READY, ![c].nsent = 2]
    /\ UNCHANGED <<gossip_vars, dl_vars, server_vars, h>>

\* the client closes its socket
CliClose(c) ==
    /\ h[c].pc \notin {"FREE", "CLOSED"}
    /\ sock[c].cli = "open"
    /\ sock' = [sock EXCEPT ![c].cli = "closed"]
    /\ UNCHANGED <<gossip_vars, dl_vars, server_vars, h>>

\* the connection is reset
CliReset(c) ==
    /\ h[c].pc \notin {"FREE", "CLOSED"}
    /\ sock[c].cli \in {"open", "closed"}
    /\ sock' = [sock EXCEPT ![c].cli = "reset"]
    /\ UNCHANGED <<gossip_vars, dl_vars, server_vars, h>>

\* --------------------------------------------------- the server's storage
Files == SeqsUpTo(Byte, MaxFileLen) \ {<<>>}
\* a file the index no longer matches: its last byte gone
Truncated(b) == SubSeq(b, 1, Len(b) - 1)

\* a file whose name is e-acute, which the index file's text holds as it is
\* (an index the indexer wrote in UTF-8, without \u escapes)
NameE == <<"U+00E9">>

\* test_doc.txt and the index ensure_initial_setup writes for it
TestDoc == <<0>>
PlaceholderFile == Named(NameT, PlaceholderEntry(TestDoc))

\* The states of a server's storage: after its first start (the placeholder
\* index), with file "a" indexed, and with the index or the file removed or
\* the file changed since.
ServerStorage ==
    {[index |-> NoIndex, disk |-> (NameT :> File(TestDoc))],
     [index |-> IndexOf(<<PlaceholderFile>>), disk |-> (NameT :> File(TestDoc))],
     [index |-> IndexOf(<<PlaceholderFile, Named(NameE, IndexFile(TestDoc))>>),
      disk |-> (NameT :> File(TestDoc)) @@ (NameE :> File(TestDoc))]}
    \cup UNION {{[index |-> IndexOf(<<PlaceholderFile, Named(NameA, IndexFile(b))>>),
                  disk |-> (NameT :> File(TestDoc)) @@ (NameA :> f)] :
                    f \in {File(b), File(Truncated(b)), NoFile}} :
                b \in {x \in Files : Len(x) = MaxFileLen}}

PeerFiles == {NoPeerFile, PeerFileOf(<<"L">>), PeerFileOf(<<"P", "L">>), PeerFileObject}

InitHandlers(n) ==
    /\ h = [c \in 1..n |-> Thread("FREE", 0)]
    /\ sock = [c \in 1..n |-> NewSock(HOST_YGGDRASIL_IP)]

\* the gossip thread not started, no download under way
\* get_remote_file_list not called: its place, its connection, the size its
\* header gave, len(received_data) and what it returned
NoList == [pc |-> "off", conn |-> 0, size |-> 0, received_data |-> 0, result |-> ""]
NoLog == [conns |-> 0, sends |-> 0, fetched |-> <<>>, reassembled |-> FALSE, missing |-> NoKey]
InitNoGossip ==
    /\ gpc = "off"
    /\ gtargets = <<>>
    /\ gstop = FALSE
    /\ gdone = {}
    /\ gtried = <<>>
    /\ remote = <<>>
    /\ returned = <<>>
InitNoDownload ==
    /\ dpc = "off"
    /\ chunks = <<>>
    /\ di = 0
    /\ parts = <<>>
    /\ outfile = NoFile
    /\ received_bytes = 0
    /\ hasher = <<>>
    /\ results = <<>>
    /\ dlog = NoLog
    /\ ls = NoList

\* ------------------------------------------------------ the server alone
InitServer ==
    /\ \E s \in ServerStorage : index = s.index /\ disk = s.disk
    /\ peerFile \in PeerFiles
    /\ saved = FALSE
    /\ InitHandlers(1)
    /\ InitNoGossip
    /\ InitNoDownload

NextServer ==
    \/ \E c \in Conns, p \in Addresses \ {HOST_YGGDRASIL_IP} : Accept(c, p)
    \/ \E c \in Conns, t \in CommandTexts : CliSend(c, t)
    \/ \E c \in Conns : CliAck(c)
    \/ \E c \in Conns : CliClose(c)
    \/ \E c \in Conns : CliReset(c)
    \/ \E c \in Conns : HStart(c)
    \/ \E c \in Conns : HReadCommand(c)
    \/ \E c \in Conns : HList(c)
    \/ \E c \in Conns : HChunk(c)
    \/ \E c \in Conns : HPeerLoad(c)
    \/ \E c \in Conns : HPeerSave(c)
    \/ \E c \in Conns : HAvail(c)
    \/ \E c \in Conns : HUnknown(c)
    \/ \E c \in Conns : HAck(c)
    \/ \E c \in Conns : HClose(c)

SpecServer == InitServer /\ [][NextServer]_vars

\* ------------------------------------------------- the peer directory
MaxInitPeers == 2

\* exchange_peers of a remote peer p arrives on a connection not used before:
\* it connects, sends REQUEST_PEER_LIST and closes without reading
RemoteExchange(c, p) ==
    /\ h[c].pc = "FREE"
    /\ AcceptWith(c, [NewSock(p) EXCEPT !.c2s = REQUEST_PEER_LIST, !.cli = "closed", !.nsent = 1])

\* config.py run as a program: save_peers(load_peers())
StartupSave ==
    /\ peerFile' = save_peers(load_peers(peerFile))
    /\ saved' = TRUE
    /\ UNCHANGED <<gossip_vars, dl_vars, handler_vars, index, disk>>

\* known_peers.json as found at the start: missing, or any list somebody wrote
InitPeerFiles == {NoPeerFile} \cup {PeerFileOf(l) : l \in SeqsUpTo(Addresses, MaxInitPeers)}

InitPeers ==
    /\ index = NoIndex
    /\ disk = <<>>
    /\ peerFile \in InitPeerFiles
    /\ saved = FALSE
    /\ InitHandlers(NumConns)
    /\ InitNoGossip
    /\ InitNoDownload

NextPeers ==
    \/ \E c \in Conns, p \in Addresses \ {HOST_YGGDRASIL_IP} : RemoteExchange(c, p)
    \/ StartupSave
    \/ \E c \in Conns : HStart(c)
    \/ \E c \in Conns : HReadCommand(c)
    \/ \E c \in Conns : HPeerLoad(c)
    \/ \E c \in Conns : HPeerSave(c)
    \/ \E c \in Conns : HAck(c)
    \/ \E c \in Conns : HClose(c)

SpecPeers == InitPeers /\ [][NextPeers]_vars

\* ----------------------------------------- claims: the peer directory
Count(l, a) == Cardinality({i \in 1..Len(l) : l[i] = a})

\* C6: once save_peers has written the peer directory, whatever list it was
\* given, the file holds the local address exactly once and no address twice.
C6_DirectoryInvariant ==
    saved => /\ peerFile.exists
             /\ Count(peerFile.list, HOST_YGGDRASIL_IP) = 1
             /\ \A a \in Addresses : Count(peerFile.list, a) <= 1

\* the handler of a peer-list request has saved a list that, as loaded, had a
\* duplicate or lacked the local address
C6_Witness ==
    /\ saved
    /\ \E c \in Conns :
        /\ h[c].pc = "RESPOND"
        /\ sock[c].peer \in Range(peerFile.list)
        /\ \/ HOST_YGGDRASIL_IP \notin Range(h[c].peers)
           \/ \E a \in Addresses : Count(h[c].peers, a) > 1

\* ------------------------------------------------------ the gossip loop
RemotePeers == Addresses \ {HOST_YGGDRASIL_IP}

\* The REQUEST_PEER_LIST branch run by the handler of the peer `host` for a
\* request from p, on its own known_peers.json: the list it answers and the
\* file it leaves.
PeerListAnswer(host, pf, p) ==
    IF p \in Range(load_peers(pf)) THEN load_peers(pf) ELSE Append(load_peers(pf), p)
PeerListFile(host, pf, p) ==
    IF p \in Range(load_peers(pf)) THEN pf ELSE SavePeersAt(host, PeerListAnswer(host, pf, p))

\* a loop that does not look at the stop event
GossipTopDeaf ==
    /\ gpc = "top"
    /\ gpc' = "exchange" /\ gtargets' = load_peers(peerFile) /\ gdone' = {} /\ gtried' = <<>>
    /\ UNCHANGED <<gstop, remote, returned, server_vars, handler_vars, dl_vars>>

\* while not self.stop_event.is_set(): current_peers = load_peers()
GossipTop ==
    /\ gpc = "top"
    /\ IF gstop
       THEN gpc' = "exited" /\ UNCHANGED <<gtargets, gdone, gtried>>
       ELSE gpc' = "exchange" /\ gtargets' = load_peers(peerFile) /\ gdone' = {} /\ gtried' = <<>>
    /\ UNCHANGED <<gstop, remote, returned, server_vars, handler_vars, dl_vars>>

\* for target_ip in list(current_peers): the local address is passed over
GossipSkipSelf ==
    /\ gpc = "exchange"
    /\ gtargets # <<>>
    /\ Head(gtargets) = HOST_YGGDRASIL_IP
    /\ gtargets' = Tail(gtargets)
    /\ UNCHANGED <<gpc, gstop, gdone, gtried, remote, returned, server_vars, handler_vars,
                   dl_vars>>

\* exchange_peers(target_ip, port) succeeds: connect,
\* sendall(REQUEST_PEER_LIST), close.  The target's handler learns the local
\* address and answers its list; the answer is not read.
GossipExchange ==
    /\ gpc = "exchange"
    /\ gtargets # <<>>
    /\ Head(gtargets) \in RemotePeers
    /\ LET t == Head(gtargets)
       IN  /\ returned' = [returned EXCEPT ![t] = PeerListAnswer(t, remote[t], HOST_YGGDRASIL_IP)]
           /\ remote' = [remote EXCEPT ![t] = PeerListFile(t, remote[t], HOST_YGGDRASIL_IP)]
           /\ gdone' = gdone \cup {t}
           /\ gtried' = Append(gtried, t)
    /\ gtargets' = Tail(gtargets)
    /\ UNCHANGED <<gpc, gstop, server_vars, handler_vars, dl_vars>>

\* an exchange_peers that lets the exception out: the thread ends
GossipExchangeDies ==
    /\ gpc = "exchange"
    /\ gtargets # <<>>
    /\ Head(gtargets) # HOST_YGGDRASIL_IP
    /\ gtried' = Append(gtried, Head(gtargets))
    /\ gpc' = "exited"
    /\ UNCHANGED <<gtargets, gstop, gdone, remote, returned, server_vars, handler_vars,
                   dl_vars>>

\* exchange_peers(target_ip, port) fails (the peer is offline or refuses): the
\* exception is passed over
GossipExchangeFails ==
    /\ gpc = "exchange"
    /\ gtargets # <<>>
    /\ Head(gtargets) # HOST_YGGDRASIL_IP
    /\ gtried' = Append(gtried, Head(gtargets))
    /\ gtargets' = Tail(gtargets)
    /\ UNCHANGED <<gpc, gstop, gdone, remote, returned, server_vars, handler_vars, dl_vars>>

\* the for loop is over: self.stop_event.wait(GOSSIP_INTERVAL_SECONDS)
GossipSleep ==
    /\ gpc = "exchange"
    /\ gtargets = <<>>
    /\ gpc' = "wait"
    /\ UNCHANGED <<gtargets, gstop, gdone, gtried, remote, returned, server_vars, handler_vars,
                   dl_vars>>

\* the wait returns: the interval is over or the event is set
GossipWake ==
    /\ gpc = "wait"
    /\ gpc' = "top"
    /\ UNCHANGED <<gtargets, gstop, gdone, gtried, remote, returned, server_vars, handler_vars,
                   dl_vars>>

\* PeerGossiper.stop
GossipStop ==
    /\ ~gstop
    /\ gstop' = TRUE
    /\ UNCHANGED <<gpc, gtargets, gdone, gtried, remote, returned, server_vars, handler_vars,
                   dl_vars>>

\* a remote peer's REQUEST_PEER_LIST handled by the local server, in one step
InboundPeerList(p) ==
    /\ peerFile' = PeerListFile(HOST_YGGDRASIL_IP, peerFile, p)
    /\ saved' = (saved \/ p \notin Range(load_peers(peerFile)))
    /\ UNCHANGED <<index, disk, gossip_vars, handler_vars, dl_vars>>

\* what a remote peer p knows at the start: itself, and maybe one other peer
InitRemoteFiles(p) ==
    {PeerFileOf(<<p>>)} \cup {PeerFileOf(<<p, q>>) : q \in RemotePeers \ {p}}

\* The local directory at the start is one save_peers wrote (with bootstrap
\* peers or without).
InitGossip ==
    /\ index = NoIndex
    /\ disk = <<>>
    /\ peerFile \in {save_peers(l) : l \in SeqsUpTo(Addresses, MaxInitPeers)}
    /\ saved = FALSE
    /\ InitHandlers(0)
    /\ gpc = "top"
    /\ gtargets = <<>>
    /\ gstop = FALSE
    /\ gdone = {}
    /\ gtried = <<>>
    /\ remote \in {f \in [RemotePeers -> UNION {InitRemoteFiles(p) : p \in RemotePeers}] :
                     \A p \in RemotePeers : f[p] \in InitRemoteFiles(p)}
    /\ returned = [p \in RemotePeers |-> <<>>]
    /\ InitNoDownload

NextGossip ==
    \/ GossipTop
    \/ GossipSkipSelf
    \/ GossipExchange
    \/ GossipExchangeFails
    \/ GossipSleep
    \/ GossipWake
    \/ GossipStop
    \/ \E p \in RemotePeers : InboundPeerList(p)

SpecGossip == InitGossip /\ [][NextGossip]_vars

\* ------------------------------------------------ claims: the gossip loop
\* C7: in a gossip cycle, the list returned by every peer whose exchange
\* succeeded has been merged into the local Peer Directory: each of its
\* addresses is in the directory.
C7_GossipMerge ==
    \A p \in gdone : Range(returned[p]) \subseteq Range(load_peers(peerFile))

\* ----------------------------------------------------- claims: the server
\* a chunk request in the format of the protocol
IsChunkRequest(t) ==
    /\ StartsWith(t, REQUEST_CHUNK_PREFIX)
    /\ Len(Split(t)) = 3
    /\ IsIntText(Split(t)[3])

HasId(cs, id) == \E i \in 1..Len(cs) : cs[i].id = id
WithId(cs, id) == cs[CHOOSE i \in 1..Len(cs) : cs[i].id = id]

\* the response the specification's error mapping gives a chunk request
ExpectedChunkResponse(name, id, idx, dsk) ==
    IF ~InIndex(idx, name) THEN FILENAME_NOT_IN_INDEX
    ELSE IF ~HasId(EntryOf(idx, name).chunks, id) THEN CHUNK_ID_NOT_FOUND
    ELSE IF ~DiskFile(dsk, name).exists THEN FILE_MISSING_ON_DISK
    ELSE ChunkReadyHeader(WithId(EntryOf(idx, name).chunks, id))

\* C8: a REQUEST_CHUNK:<filename>:<id> with an integer id, against an
\* existing index, is answered by the first failing check in the order
\* FILENAME_NOT_IN_INDEX, CHUNK_ID_NOT_FOUND, FILE_MISSING_ON_DISK, else by
\* the CHUNK_READY header of the descriptor; nothing follows an error.
C8_ErrorMapping ==
    \A c \in Conns :
        (/\ sock[c].got
         /\ IsChunkRequest(h[c].data)
         /\ index.exists
         /\ sock[c].sent # <<>>)
        => /\ sock[c].sent[1] = ExpectedChunkResponse(Split(h[c].data)[2],
                                    ParseInt(Split(h[c].data)[3]), index, disk)
           /\ IsError(sock[c].sent[1]) => Len(sock[c].sent) = 1

\* The same mapping for the names whose descriptors all have an id: there the
\* code agrees with it.
AllHaveIds(idx, name) ==
    InIndex(idx, name) =>
        \A k \in 1..Len(EntryOf(idx, name).chunks) : EntryOf(idx, name).chunks[k].id # NoKey
ErrorMappingWithIds ==
    \A c \in Conns :
        (/\ sock[c].got
         /\ IsChunkRequest(h[c].data)
         /\ index.exists
         /\ AllHaveIds(index, Split(h[c].data)[2])
         /\ sock[c].sent # <<>>)
        => /\ sock[c].sent[1] = ExpectedChunkResponse(Split(h[c].data)[2],
                                    ParseInt(Split(h[c].data)[3]), index, disk)
           /\ IsError(sock[c].sent[1]) => Len(sock[c].sent) = 1

\* a text that is none of the four commands
NotCommand(t) ==
    /\ t \notin {REQUEST_FILE_LIST, REQUEST_PEER_LIST, REPORT_AVAILABILITY}
    /\ ~StartsWith(t, REQUEST_CHUNK_PREFIX)

UnknownHandled(c) ==
    /\ h[c].pc \in {"ERROR", "RESPOND", "CLOSED"}
    /\ sock[c].sent \in {<<>>, <<UNKNOWN_COMMAND>>}
    /\ h[c].pc = "RESPOND" => sock[c].sent = <<UNKNOWN_COMMAND>> /\ h[c].step = "fin"
    /\ (h[c].pc = "CLOSED" /\ sock[c].cli # "reset") => sock[c].sent = <<UNKNOWN_COMMAND>>
    /\ h[c].pc = "CLOSED" => sock[c].closed

\* C9 as stated: every received text that is not one of the commands is
\* answered with exactly 'ERROR: Unknown command.', changes neither file and
\* ends with the connection closed.
C9_UnknownCommandRaw ==
    /\ [](\A c \in Conns : (sock[c].got /\ NotCommand(sock[c].rx)) => UnknownHandled(c))
    /\ [][\A c \in Conns : (sock[c].got /\ NotCommand(sock[c].rx))
                              => index' = index /\ peerFile' = peerFile]_vars

\* C9 amended: the same of every received text that is not one of the
\* commands once its surrounding whitespace is stripped (nothing is sent if
\* the client has reset the connection before the send).
C9_UnknownCommand ==
    /\ [](\A c \in Conns : (sock[c].got /\ NotCommand(Strip(sock[c].rx))) => UnknownHandled(c))
    /\ [][\A c \in Conns : (sock[c].got /\ NotCommand(Strip(sock[c].rx)))
                              => index' = index /\ peerFile' = peerFile]_vars

C9_Witness ==
    \E c \in Conns :
        /\ sock[c].got
        /\ NotCommand(Strip(sock[c].rx))
        /\ sock[c].rx # <<>>
        /\ h[c].pc = "CLOSED"
        /\ sock[c].sent = <<UNKNOWN_COMMAND>>

\* the steps of the per-connection state machine
Branches == {"LIST", "CHUNK", "PEER_LIST", "AVAILABILITY", "ERROR"}
HandlerStep(a, b) ==
    \/ a = b
    \/ a \in {"FREE", "CLOSED"} /\ b = "ACCEPTED"
    \/ a = "ACCEPTED" /\ b = "READ_COMMAND"
    \/ a = "READ_COMMAND" /\ b \in Branches \cup {"CLOSED"}
    \/ a \in Branches /\ b \in {"RESPOND", "CLOSED"}
    \/ a = "RESPOND" /\ b = "CLOSED"

\* C10: a connection goes ACCEPTED -> READ_COMMAND -> one branch -> RESPOND ->
\* CLOSED (an exception leads to CLOSED at once); the handler reads one
\* command, in READ_COMMAND and never again, and whenever it has finished its
\* socket is closed.
C10_StateMachine ==
    /\ [][\A c \in Conns :
            /\ HandlerStep(h[c].pc, h'[c].pc)
            /\ h'[c].reads > h[c].reads => h[c].pc = "READ_COMMAND" /\ h[c].reads = 0
            /\ (h[c].pc = "CLOSED" /\ h'[c].pc = "CLOSED") => sock'[c].sent = sock[c].sent]_vars
    /\ [](\A c \in Conns :
            /\ h[c].reads <= 1
            /\ h[c].pc \in Branches \cup {"RESPOND"} => h[c].reads = 1
            /\ h[c].pc = "CLOSED" <=> sock[c].closed)

C10_Witness ==
    \E c \in Conns :
        /\ h[c].pc = "CLOSED"
        /\ sock[c].closed
        /\ h[c].reads = 1
        /\ Len(sock[c].sent) = 2

\* ---------------------------------------------------- the download client
\* calculate_hash(path): the hash of a file's whole content
calculate_hash(f) == Sha256(f.bytes)

\* a download_chunk that never resumes
PartIsValidNever(ps, d) == FALSE

\* download_chunk, resume: the part file exists and its hash is the
\* descriptor's
PartIsValid(ps, d) == ps[d.id].exists /\ calculate_hash(ps[d.id]) = d.hash

\* a download_chunk that accepts whatever it received
VerifiedAlways(hb, d) == TRUE

\* download_chunk: hasher.hexdigest() == chunk_hash
Verified(hb, d) == Sha256(hb) = d.hash

\* a download_chunk that leaves the part it rejects
RejectedKept(ps, d) == ps

\* download_chunk, hash mismatch: os.remove(temp_path)
Rejected(ps, d) == [ps EXCEPT ![d.id] = NoFile]

\* chunks_metadata.sort(key=lambda x: x['id']): a stable sort by id
RECURSIVE InsertById(_, _)
InsertById(sorted, d) ==
    IF sorted = <<>> THEN <<d>>
    ELSE IF sorted[Len(sorted)].id <= d.id THEN Append(sorted, d)
    ELSE Append(InsertById(SubSeq(sorted, 1, Len(sorted) - 1), d), sorted[Len(sorted)])
RECURSIVE SortFrom(_, _, _)
SortFrom(cs, i, sorted) ==
    IF i > Len(cs) THEN sorted ELSE SortFrom(cs, i + 1, InsertById(sorted, cs[i]))
\* a reassemble_file that takes the descriptors as listed
SortByIdSkipped(cs) == cs
SortById(cs) == SortFrom(cs, 1, <<>>)

\* reassemble_file, the loop over the sorted descriptors: a missing part ends
\* it, a part that is there is appended to the output and removed
RECURSIVE Stitch(_, _, _, _)
Stitch(cs, i, ps, out) ==
    IF i > Len(cs) THEN [ok |-> TRUE, parts |-> ps, out |-> out, missing |-> NoKey]
    ELSE IF ~ps[cs[i].id].exists
         THEN [ok |-> FALSE, parts |-> ps, out |-> out, missing |-> cs[i].id]
    ELSE Stitch(cs, i + 1, [ps EXCEPT ![cs[i].id] = NoFile], out \o ps[cs[i].id].bytes)

\* reassemble_file: the output file is opened for writing, and so created
\* empty, before the descriptors are sorted and the parts looked for
reassemble_file(cs, ps) == Stitch(SortById(cs), 1, ps, <<>>)

\* The descriptor download_chunk is called with
Current == chunks[di]
\* what the handler has sent of the chunk's bytes and recv has not returned
Unread(c) ==
    IF Len(sock[c].sent) < 2 THEN <<>>
    ELSE SubSeq(sock[c].sent[2].bytes, received_bytes + 1, Len(sock[c].sent[2].bytes))

\* a download loop that goes on to the next chunk after a failure
ReturnAndGoOn(c, success) ==
    /\ results' = Append(results, success)
    /\ sock' = [sock EXCEPT ![c].cli = "closed"]
    /\ dpc' = "loop"
    /\ di' = di + 1

\* download_chunk returns: finally closes the socket
Return(c, success) ==
    /\ results' = Append(results, success)
    /\ sock' = [sock EXCEPT ![c].cli = "closed"]
    /\ dpc' = IF success THEN "loop" ELSE "aborted"
    /\ di' = IF success THEN di + 1 ELSE di

\* download_chunk: the part is there and valid, nothing is fetched
DlResume ==
    /\ dpc = "loop"
    /\ di <= Len(chunks)
    /\ PartIsValid(parts, Current)
    /\ results' = Append(results, TRUE)
    /\ di' = di + 1
    /\ UNCHANGED <<ls, server_vars, handler_vars, gossip_vars, dpc, chunks, parts, outfile,
                   received_bytes, hasher, dlog>>

\* download_chunk: connect and send the command
DlConnect(c) ==
    /\ dpc = "loop"
    /\ di <= Len(chunks)
    /\ ~PartIsValid(parts, Current)
    /\ h[c].pc \in {"FREE", "CLOSED"}
    /\ h' = [h EXCEPT ![c] = Thread("ACCEPTED", 0)]
    /\ sock' = [sock EXCEPT ![c] = [NewSock(HOST_YGGDRASIL_IP) EXCEPT
                                       !.c2s = ChunkCommand(NameA, Current.id),
                                       !.nsent = 1]]
    /\ dpc' = "header"
    /\ dlog' = [dlog EXCEPT !.conns = @ + 1, !.sends = @ + 1,
                            !.fetched = Append(@, Current.id)]
    /\ UNCHANGED <<ls, server_vars, gossip_vars, chunks, di, parts, outfile, received_bytes,
                   hasher, results>>

\* download_chunk: connect raises (the peer is not there), except returns False
DlConnectFails ==
    /\ dpc = "loop"
    /\ di <= Len(chunks)
    /\ ~PartIsValid(parts, Current)
    /\ results' = Append(results, FALSE)
    /\ dpc' = "aborted"
    /\ dlog' = [dlog EXCEPT !.conns = @ + 1]
    /\ UNCHANGED <<ls, server_vars, handler_vars, gossip_vars, chunks, di, parts, outfile,
                   received_bytes, hasher>>

\* a download_chunk that opens the part file and waits for the bytes without
\* sending READY
DlHeaderSilent(c) ==
    /\ dpc = "header"
    /\ sock[c].sent # <<>> \/ sock[c].closed
    /\ LET header == IF sock[c].sent # <<>> THEN Strip(sock[c].sent[1].text) ELSE <<>>
       IN  IF StartsWith(header, <<"CHUNK_READY", ":">>)
           THEN /\ parts' = [parts EXCEPT ![Current.id] = File(<<>>)]
                /\ received_bytes' = 0
                /\ hasher' = <<>>
                /\ dpc' = IF 0 < Current.size THEN "recv" ELSE "verify"
                /\ UNCHANGED <<results, di, sock, dlog>>
           ELSE /\ Return(c, FALSE)
                /\ UNCHANGED <<parts, received_bytes, hasher, dlog>>
    /\ UNCHANGED <<ls, server_vars, gossip_vars, h, chunks, outfile>>

\* download_chunk: header = recv(1024).decode().strip(); CHUNK_READY: send
\* READY and open the part file for writing; anything else: return False
DlHeader(c) ==
    /\ dpc = "header"
    /\ sock[c].sent # <<>> \/ sock[c].closed
    /\ LET header == IF sock[c].sent # <<>> THEN Strip(sock[c].sent[1].text) ELSE <<>>
       IN  IF StartsWith(header, <<"CHUNK_READY", ":">>)
           THEN /\ sock' = [sock EXCEPT ![c].c2s = @ \o READY, ![c].nsent = 2]
                /\ parts' = [parts EXCEPT ![Current.id] = File(<<>>)]
                /\ received_bytes' = 0
                /\ hasher' = <<>>
                /\ dpc' = IF 0 < Current.size THEN "recv" ELSE "verify"
                /\ dlog' = [dlog EXCEPT !.sends = @ + 1]
                /\ UNCHANGED <<results, di>>
           ELSE /\ Return(c, FALSE)
                /\ UNCHANGED <<parts, received_bytes, hasher, dlog>>
    /\ UNCHANGED <<ls, server_vars, gossip_vars, h, chunks, outfile>>

\* download_chunk: data = recv(4096) returns some of the bytes that have
\* arrived; they are written, hashed and counted
DlRecv(c) ==
    /\ dpc = "recv"
    /\ Unread(c) # <<>>
    /\ \E k \in 1..Min(RecvBuf, Len(Unread(c))) :
         LET data == SubSeq(Unread(c), 1, k)
         IN  /\ parts' = [parts EXCEPT ![Current.id] = File(@.bytes \o data)]
             /\ hasher' = hasher \o data
             /\ received_bytes' = received_bytes + k
             /\ dpc' = IF received_bytes + k < Current.size THEN "recv" ELSE "verify"
    /\ UNCHANGED <<ls, server_vars, handler_vars, gossip_vars, chunks, di, outfile, results, dlog>>

\* download_chunk: recv returns nothing, the handler has closed: break
DlRecvEof(c) ==
    /\ dpc = "recv"
    /\ Unread(c) = <<>>
    /\ sock[c].closed
    /\ dpc' = "verify"
    /\ UNCHANGED <<ls, server_vars, handler_vars, gossip_vars, chunks, di, parts, outfile,
                   received_bytes, hasher, results, dlog>>

\* download_chunk: the hash of what was received against the descriptor's
DlVerify(c) ==
    /\ dpc = "verify"
    /\ IF Verified(hasher, Current)
       THEN /\ Return(c, TRUE)
            /\ UNCHANGED parts
       ELSE /\ Return(c, FALSE)
            /\ parts' = Rejected(parts, Current)
    /\ UNCHANGED <<ls, server_vars, gossip_vars, h, chunks, outfile, received_bytes, hasher, dlog>>

\* start_download_manager: every download_chunk succeeded, reassemble_file
DlReassemble ==
    /\ dpc = "loop"
    /\ di > Len(chunks)
    /\ LET r == reassemble_file(chunks, parts)
       IN  /\ outfile' = File(r.out)
           /\ parts' = r.parts
           /\ dlog' = [dlog EXCEPT !.reassembled = r.ok, !.missing = r.missing]
           /\ dpc' = IF r.ok THEN "saved" ELSE "failed"
    /\ chunks' = SortById(chunks)
    /\ UNCHANGED <<ls, server_vars, handler_vars, gossip_vars, di, received_bytes, hasher, results>>

\* The file the client wants is one of full length.  The peer listed its
\* descriptors in some order, or listed one twice.  Since the listing the
\* peer's file may have changed and been indexed again.
ClientFiles == {b \in Files : Len(b) = MaxFileLen}
Flipped(b) == [b EXCEPT ![Len(b)] = 1 - @]
Extended(b) == Append(b, 0)
Orders(cs) == {p \in [1..Len(cs) -> Range(cs)] : Range(p) = Range(cs)}
Listings(b) == Orders(IndexFile(b).chunks)
                  \cup {<<IndexFile(b).chunks[1], IndexFile(b).chunks[1]>>}
PeerFilesFor(b) == {b, Truncated(b), Flipped(b), Extended(b)}

\* The download directory at the start: for each descriptor no part, the
\* part of an earlier run, or the empty part of an interrupted one.
PartChoice(b, i, choice) ==
    IF choice = "none" THEN NoFile
    ELSE IF choice = "valid" THEN File(ReadAt(b, i * ChunkLen, ChunkLen))
    ELSE File(<<>>)
InitParts(b, cs) ==
    {[i \in ChunkIds |-> IF \E k \in 1..Len(cs) : cs[k].id = i
                         THEN PartChoice(b, i, choice[i]) ELSE NoFile] :
        choice \in [ChunkIds -> {"none", "valid", "empty"}]}

InitDownload ==
    /\ \E b \in ClientFiles : \E cs \in Listings(b) : \E pb \in PeerFilesFor(b) :
         /\ chunks = cs
         /\ parts \in InitParts(b, cs)
         /\ index = IndexOf(<<PlaceholderFile,
                              Named(NameA, IF pb = b
                                           THEN [total_size |-> Len(b), chunks |-> cs]
                                           ELSE IndexFile(pb))>>)
         /\ \E f \in {File(pb), File(Truncated(pb)), NoFile} :
              disk = (NameT :> File(TestDoc)) @@ (NameA :> f)
    /\ peerFile = PeerFileOf(<<"L">>)
    /\ saved = FALSE
    /\ InitHandlers(1)
    /\ InitNoGossip
    /\ dpc = "loop"
    /\ di = 1
    /\ outfile = NoFile
    /\ received_bytes = 0
    /\ hasher = <<>>
    /\ results = <<>>
    /\ dlog = NoLog
    /\ ls = NoList

NextDownload ==
    \/ DlResume
    \/ \E c \in Conns : DlConnect(c)
    \/ DlConnectFails
    \/ \E c \in Conns : DlHeader(c)
    \/ \E c \in Conns : DlRecv(c)
    \/ \E c \in Conns : DlRecvEof(c)
    \/ \E c \in Conns : DlVerify(c)
    \/ DlReassemble
    \/ \E c \in Conns : HStart(c)
    \/ \E c \in Conns : HReadCommand(c)
    \/ \E c \in Conns : HChunk(c)
    \/ \E c \in Conns : HAck(c)
    \/ \E c \in Conns : HClose(c)

SpecDownload == InitDownload /\ [][NextDownload]_vars

\* ------------------------------------------------- claims: the download
\* the descriptors index_file gives file b, in any order
CorrectDescriptors(cs, b) ==
    /\ Len(cs) = Len(IndexFile(b).chunks)
    /\ Range(cs) = Range(IndexFile(b).chunks)

\* C1: when the index entry of the peer's file has the file's contiguous,
\* correctly hashed descriptors, in whatever order, and every download_chunk
\* of the loop succeeded and reassemble_file has run, the output file is the
\* peer's file byte for byte.
C1_RoundTrip ==
    (/\ dpc = "saved"
     /\ DiskFile(disk, NameA).exists
     /\ CorrectDescriptors(EntryOf(index, NameA).chunks, DiskFile(disk, NameA).bytes)
     /\ Range(chunks) = Range(EntryOf(index, NameA).chunks))
    => outfile = DiskFile(disk, NameA)

\* every chunk was fetched from the handler, the last-numbered one first, and
\* the file was put together
C1_Witness ==
    /\ dpc = "saved"
    /\ Len(dlog.fetched) = Len(chunks)
    /\ Len(chunks) >= 2
    /\ dlog.fetched[1] > dlog.fetched[2]
    /\ Len(outfile.bytes) = MaxFileLen
    /\ outfile = DiskFile(disk, NameA)

\* C2: whenever download_chunk returns success, by the resume shortcut or
\* after a transfer, whatever the handler sent, the part file of the
\* descriptor exists and the hash of its content is the descriptor's hash.
C2_NeverAcceptsMismatch ==
    [][(/\ Len(results') = Len(results) + 1
        /\ results'[Len(results')])
       => /\ parts'[chunks[di].id].exists
          /\ Sha256(parts'[chunks[di].id].bytes) = chunks[di].hash]_vars

\* a download_chunk that fetched its chunk from the handler has returned
\* success
C2_Witness ==
    /\ dpc = "loop"
    /\ results # <<>>
    /\ dlog.fetched # <<>>
    /\ dlog.fetched[Len(dlog.fetched)] = chunks[di - 1].id
    /\ sock[1].nsent = 2
    /\ parts[chunks[di - 1].id].exists

\* C3: when a transfer has ended (the size was reached or the handler closed
\* the connection) and the hash of the received bytes is not the
\* descriptor's, download_chunk returns failure and the part file is gone.
C3_MismatchRejected ==
    [][(/\ dpc = "verify"
        /\ Sha256(hasher) # chunks[di].hash
        /\ dpc' # "verify")
       => /\ results' = Append(results, FALSE)
          /\ ~parts'[chunks[di].id].exists]_vars

\* a transfer that brought bytes of another hash has been rejected
C3_Witness ==
    /\ dpc = "aborted"
    /\ sock[1].nsent = 2
    /\ received_bytes > 0
    /\ Sha256(hasher) # chunks[di].hash
    /\ results[Len(results)] = FALSE
    /\ ~parts[chunks[di].id].exists

\* C4: a download_chunk called on a descriptor whose part file exists with
\* the descriptor's hash returns success, opens no connection, sends nothing
\* and leaves the part files as they are (so the next call on the descriptor
\* finds the same).
C4_ResumeIdempotent ==
    [][(/\ dpc = "loop"
        /\ di <= Len(chunks)
        /\ parts[chunks[di].id].exists
        /\ Sha256(parts[chunks[di].id].bytes) = chunks[di].hash
        /\ dl_vars' # dl_vars)
       => /\ results' = Append(results, TRUE)
          /\ dlog' = dlog
          /\ sock' = sock
          /\ parts' = parts]_vars

\* download_chunk was called twice on one descriptor and nothing was fetched
C4_Witness ==
    /\ dpc = "loop"
    /\ Len(results) = 2
    /\ chunks[1] = chunks[2]
    /\ dlog.conns = 0
    /\ dlog.sends = 0
    /\ parts[chunks[1].id].exists

\* C5: when reassemble_file has found the part of a descriptor missing, there
\* is no file at the final path and the missing chunk has been reported.
C5_CleanAbort ==
    dpc = "failed" => (~outfile.exists /\ dlog.missing # NoKey)

\* --------------------------------------------- claims: handler exceptions
\* C11: a handler that an exception has ended has, when the client has not
\* reset the connection (the socket is still writable), sent
\* 'ERROR: INTERNAL_SERVER_ERROR' as its last message, and has closed the
\* connection; the connection's slot can be accepted again.
C11_ExceptionConversion ==
    \A c \in Conns :
        (h[c].pc = "CLOSED" /\ h[c].step = "except")
        => /\ sock[c].closed
           /\ sock[c].cli # "reset"
                => /\ sock[c].sent # <<>>
                   /\ sock[c].sent[Len(sock[c].sent)] = INTERNAL_SERVER_ERROR

\* ------------------------------------------- the dispatcher and its threads
\* start_server with NumConns connections at a time.  A client may send a
\* command and an acknowledgement, or send nothing and stay connected for
\* ever.  Each handler is a thread of its own, which the scheduler lets run
\* whenever it can take a step.
SlowCommands == {REQUEST_FILE_LIST, <<"x">>}

InitAccept ==
    /\ index = IndexOf(<<PlaceholderFile>>)
    /\ disk = (NameT :> File(TestDoc))
    /\ peerFile = PeerFileOf(<<"L">>)
    /\ saved = FALSE
    /\ InitHandlers(NumConns)
    /\ InitNoGossip
    /\ InitNoDownload

HandlerNext(c) ==
    \/ HStart(c)
    \/ HReadCommand(c)
    \/ HList(c)
    \/ HUnknown(c)
    \/ HAck(c)
    \/ HClose(c)

NextAccept ==
    \/ \E c \in Conns : Accept(c, "P")
    \/ \E c \in Conns, t \in SlowCommands : CliSend(c, t)
    \/ \E c \in Conns : CliAck(c)
    \/ \E c \in Conns : HStart(c)
    \/ \E c \in Conns : HReadCommand(c)
    \/ \E c \in Conns : HList(c)
    \/ \E c \in Conns : HUnknown(c)
    \/ \E c \in Conns : HAck(c)
    \/ \E c \in Conns : HClose(c)

SpecAccept ==
    InitAccept /\ [][NextAccept]_vars /\ \A c \in 1..NumConns : WF_vars(HandlerNext(c))

\* ----------------------------------------------- claims: the dispatcher
\* a handler waiting for a client that sends nothing
Blocked(c) ==
    /\ sock[c].cli = "open"
    /\ sock[c].c2s = <<>>
    /\ \/ h[c].pc = "READ_COMMAND"
       \/ h[c].pc = "RESPOND" /\ h[c].step = "ack"

\* C12: accepting a connection takes no handler step (nothing is read or
\* sent, no other handler moves); whatever handlers are under way or blocked,
\* a connection can be accepted on every free slot; and the handler of a
\* client that has sent its command and its acknowledgement reaches CLOSED.
C12_DispatcherIsolation ==
    /\ [](\A c \in Conns : h[c].pc \in {"FREE", "CLOSED"} => ENABLED Accept(c, "P"))
    /\ [][\A c \in Conns :
            (h'[c].pc = "ACCEPTED" /\ h[c].pc # "ACCEPTED")
            => /\ h'[c].reads = 0
               /\ sock'[c].sent = <<>>
               /\ ~sock'[c].got
               /\ \A d \in Conns \ {c} : h'[d] = h[d] /\ sock'[d] = sock[d]]_vars
    /\ \A c \in 1..NumConns :
         (h[c].pc \notin {"FREE", "CLOSED"} /\ sock[c].nsent = 2) ~> (h[c].pc = "CLOSED")

\* while a handler is blocked, another connection's handler has finished its
\* response
C12_Witness ==
    \E c, d \in Conns :
        /\ c # d
        /\ Blocked(c)
        /\ h[d].pc = "CLOSED"
        /\ Len(sock[d].sent) = 2

\* ------------------------------------------- the gossip thread, scheduled
\* stop_event.wait returns at once when the event is set
GossipWakeStopped == gstop /\ GossipWake

\* The gossip thread runs whenever it can take a step, and each exchange
\* ends (with or without an exception).  The interval may be as long as one
\* likes: the wait is only held to return when the event is set.
SpecGossipFair ==
    /\ InitGossip
    /\ [][NextGossip]_vars
    /\ WF_vars(GossipTop)
    /\ WF_vars(GossipSkipSelf)
    /\ WF_vars(GossipExchange \/ GossipExchangeFails)
    /\ WF_vars(GossipSleep)
    /\ WF_vars(GossipWakeStopped)

\* C13: once stop() has been called the event stays set and no new cycle
\* begins; stop() itself changes nothing of the cycle under way, whose
\* remaining peers are still visited; and the thread exits, without the wait
\* having to run to the end of the interval.
C13_GossipCancellation ==
    /\ [][gstop => gstop']_vars
    /\ [][gstop => ~(gpc = "top" /\ gpc' = "exchange")]_vars
    /\ [][gstop' # gstop => UNCHANGED <<gpc, gtargets, gdone, gtried, remote, returned>>]_vars
    /\ [][(gstop /\ gpc = "exchange" /\ gtargets # <<>>) => gpc' = "exchange"]_vars
    /\ gstop ~> (gpc = "exited")

\* stop() was called and the thread has exited after a cycle with an exchange
C13_Witness ==
    /\ gstop
    /\ gpc = "exited"
    /\ gdone # {}

\* C14: in a cycle the peers of the loaded list are taken one by one: each
\* one other than the local address has exchange_peers called with it,
\* whether or not the calls before it failed, the local address is passed
\* over and never contacted, the cycle ends only when the list is exhausted,
\* and the thread ends only when it was stopped.
C14_GossipFailureTolerance ==
    /\ [][(gpc = "top" /\ gpc' = "exchange")
             => gtargets' = load_peers(peerFile) /\ gtried' = <<>>]_vars
    /\ [][(gpc = "exchange" /\ gtargets # <<>> /\ <<gpc, gtargets, gtried>>' # <<gpc, gtargets, gtried>>)
             => /\ gpc' = "exchange"
                /\ gtargets' = Tail(gtargets)
                /\ gtried' = IF Head(gtargets) = HOST_YGGDRASIL_IP
                             THEN gtried ELSE Append(gtried, Head(gtargets))]_vars
    /\ [][(gpc = "exchange" /\ gpc' # "exchange") => gtargets = <<>>]_vars
    /\ [](HOST_YGGDRASIL_IP \notin Range(gtried) /\ HOST_YGGDRASIL_IP \notin gdone)
    /\ [](gpc = "exited" => gstop)

\* the exchange with the first peer failed and the one with the next peer
\* was made and succeeded
C14_Witness ==
    /\ Len(gtried) >= 2
    /\ gtried[1] \notin gdone
    /\ gtried[2] \in gdone

\* ------------------------------------------ claims: the download loop
AllSucceeded(rs) == \A i \in 1..Len(rs) : rs[i]

\* C15: download_chunk is called for one descriptor at a time, in the order
\* of the listing, each call after the one before has returned success;
\* after the first failure nothing more is requested and reassemble_file is
\* not called; reassemble_file is called when, and only when, the call for
\* every descriptor has returned success.
C15_DownloadOrchestration ==
    /\ [](dpc \in {"loop", "header", "recv", "verify"}
            => Len(results) = di - 1 /\ AllSucceeded(results))
    /\ [](dpc = "aborted"
            => /\ Len(results) = di
               /\ ~results[di]
               /\ AllSucceeded(SubSeq(results, 1, di - 1))
               /\ ~outfile.exists)
    /\ [](dpc \in {"saved", "failed"}
            => Len(results) = Len(chunks) /\ AllSucceeded(results))
    /\ [][dlog'.conns > dlog.conns
            => /\ dpc = "loop"
               /\ di <= Len(chunks)
               /\ dlog'.conns = dlog.conns + 1
               /\ dpc' = "header" => dlog'.fetched = Append(dlog.fetched, chunks[di].id)]_vars
    /\ [][dpc = "aborted" => dl_vars' = dl_vars]_vars
    /\ [][(dpc = "loop" /\ di > Len(chunks) /\ dl_vars' # dl_vars)
            => dpc' \in {"saved", "failed"}]_vars

\* the first download_chunk failed after a request, with a descriptor left
C15_Witness ==
    /\ dpc = "aborted"
    /\ results = <<FALSE>>
    /\ Len(chunks) >= 2
    /\ Len(dlog.fetched) = 1
    /\ sock[1].sent # <<>>

\* ---------------------------------------------- claims: the peer list
\* the addresses a peer-list payload names
AddressesIn(m) == {m.text[i] : i \in 1..Len(m.text)} \cap Addresses

\* C16: when the handler has answered a REQUEST_PEER_LIST from address P, P
\* is in the persisted Peer Directory, and the list it sent is the full
\* directory: as a set it is the persisted directory, which holds P and the
\* local address.
C16_ServePeerList ==
    \A c \in Conns :
        (/\ sock[c].got
         /\ Strip(sock[c].rx) = REQUEST_PEER_LIST
         /\ Len(sock[c].sent) = 2)
        => /\ peerFile.exists
           /\ sock[c].peer \in Range(peerFile.list)
           /\ HOST_YGGDRASIL_IP \in Range(peerFile.list)
           /\ AddressesIn(sock[c].sent[2]) = Range(peerFile.list)

\* ------------------------------------------ claims: the length prefix
SizeKinds == {"LIST_SIZE", "PEER_LIST_SIZE", "HASH_LIST_SIZE"}

\* C17: the number a '<KIND>_SIZE:N' header announces is the number of bytes
\* of the payload the server sends after it.
C17_LengthPrefix ==
    \A c \in Conns :
        (/\ Len(sock[c].sent) = 2
         /\ sock[c].sent[1].text[1] \in SizeKinds)
        => ParseInt(SubSeq(sock[c].sent[1].text, 3, Len(sock[c].sent[1].text)))
              = NBytes(sock[c].sent[2])

\* The same of the payloads in which every character is one byte: there the
\* header is right.
LengthPrefixAscii ==
    \A c \in Conns :
        (/\ Len(sock[c].sent) = 2
         /\ sock[c].sent[1].text[1] \in SizeKinds
         /\ \A i \in 1..Len(sock[c].sent[2].text) : Utf8Width(sock[c].sent[2].text[i]) = 1)
        => ParseInt(SubSeq(sock[c].sent[1].text, 3, Len(sock[c].sent[1].text)))
              = NBytes(sock[c].sent[2])

\* --------------------------------------------- claims: chunk streaming
\* C18: after a 'CHUNK_READY:<id>:<size>:<hash>' header the server sends
\* exactly <size> bytes of payload.
C18_ChunkStreamingSize ==
    \A c \in Conns :
        (/\ Len(sock[c].sent) = 2
         /\ sock[c].sent[1].text[1] = "CHUNK_READY")
        => NBytes(sock[c].sent[2]) = ParseInt(Split(sock[c].sent[1].text)[3])

\* The same when the backing file is as long as the index says: there the
\* payload has the size of the header.
ChunkStreamingSizeFresh ==
    \A c \in Conns :
        (/\ Len(sock[c].sent) = 2
         /\ sock[c].sent[1].text[1] = "CHUNK_READY"
         /\ Len(DiskFile(disk, Split(Strip(sock[c].rx))[2]).bytes)
               = EntryOf(index, Split(Strip(sock[c].rx))[2]).total_size)
        => NBytes(sock[c].sent[2]) = ParseInt(Split(sock[c].sent[1].text)[3])

\* ------------------------------------------- claims: the acknowledgement
\* a step in which the handler of c sends the payload that follows a
\* '<KIND>_SIZE' or 'CHUNK_READY' header
SendsPayload(c) ==
    /\ Len(sock[c].sent) = 1
    /\ sock[c].sent[1].text # <<>>
    /\ sock[c].sent[1].text[1] \in SizeKinds \cup {"CHUNK_READY"}
    /\ Len(sock'[c].sent) = 2

\* C19: the server sends the payload of a length-prefixed or chunk exchange
\* only when the read for the acknowledgement returned something; when the
\* client has closed instead and the read returns empty, no payload is sent.
C19_AckOrdering ==
    [][\A c \in Conns : SendsPayload(c) => sock[c].c2s # <<>>]_vars

\* The first half alone: no payload before the read for the acknowledgement
\* has returned, with bytes or with the end of the stream.
AckReadReturned ==
    [][\A c \in Conns : SendsPayload(c) => RecvReady(c)]_vars

\* ---------------------------------------- claims: the bounded chunk read
\* C20: during a chunk transfer the client writes and hashes at most
\* descriptor.size bytes, whatever the server sends.
C20_BoundedChunkRead ==
    dpc \in {"recv", "verify"} =>
        /\ received_bytes <= Current.size
        /\ Len(hasher) <= Current.size

\* The second half alone: no recv once descriptor.size bytes are counted.
NoReadOnceAccumulated ==
    [][received_bytes' > received_bytes => received_bytes < Current.size]_vars

\* ------------------------------- claims: the peer directory's writers
\* known_peers.json at the start with no remote peer in it
InitUnknownPeerFiles == {pf \in InitPeerFiles : Range(pf.list) \cap RemotePeers = {}}

InitRace ==
    /\ index = NoIndex
    /\ disk = <<>>
    /\ peerFile \in InitUnknownPeerFiles
    /\ saved = FALSE
    /\ InitHandlers(NumConns)
    /\ InitNoGossip
    /\ InitNoDownload

\* Handler threads of REQUEST_PEER_LIST connections, scheduled in any way
NextRace ==
    \/ \E c \in Conns, p \in RemotePeers : RemoteExchange(c, p)
    \/ \E c \in Conns : HStart(c)
    \/ \E c \in Conns : HReadCommand(c)
    \/ \E c \in Conns : HPeerLoad(c)
    \/ \E c \in Conns : HPeerSave(c)
    \/ \E c \in Conns : HAck(c)
    \/ \E c \in Conns : HClose(c)

SpecRace == InitRace /\ [][NextRace]_vars

\* the handler of connection c is under way
Active(c) == h[c].pc \notin {"FREE", "CLOSED"}
\* two handlers are under way at once
Overlap == \E c, d \in 1..NumConns : c # d /\ Active(c) /\ Active(d)
\* the peer of every handler that has ended is in known_peers.json
FinishedPresent ==
    \A c \in 1..NumConns : h[c].pc = "CLOSED" => sock[c].peer \in Range(peerFile.list)

\* C21: when the REQUEST_PEER_LIST handlers of previously unknown peers run
\* one after the other, every one of them that has finished has its peer in
\* the persisted peer directory; run concurrently, they can finish with one
\* of the peers missing (C21_Witness is such a state).
C21_LostUpdate == ([]~Overlap) => []FinishedPresent

\* two handlers for distinct peers unknown at the start have both finished
\* and known_peers.json lacks one of the two
C21_Witness ==
    \E c, d \in Conns :
        /\ sock[c].peer # sock[d].peer
        /\ h[c].pc = "CLOSED" /\ h[d].pc = "CLOSED"
        /\ h[c].step # "except" /\ h[d].step # "except"
        /\ Len(sock[c].sent) = 2 /\ Len(sock[d].sent) = 2
        /\ sock[c].peer \notin Range(peerFile.list)
        /\ sock[d].peer \in Range(peerFile.list)

\* ------------------------------------------- claims: the command codec
\* parts = data.split(":"): requested_filename = parts[1] and
\* requested_chunk_id = int(parts[2]); NoKey stands for the IndexError or
\* ValueError the two lines raise
requested_filename(data) ==
    IF Len(Split(data)) < 2 THEN <<>> ELSE Split(data)[2]
requested_chunk_id(data) ==
    IF Len(Split(data)) < 3 \/ ~IsIntText(Split(data)[3]) THEN NoKey
    ELSE ParseInt(Split(data)[3])

\* the file names a client may ask for
CodecNames == {NameA, NameT, <<"b">>, <<"a", ":", "b">>}
\* the handler of c has read the command download_chunk writes for (n, i)
ReadChunkCommand(c, n, i) ==
    /\ h[c].pc = "CHUNK"
    /\ sock[c].rx = ChunkCommand(n, i)

\* C22: the handler's parse of the command the client writes for a file name
\* and a chunk id gives back that file name and that chunk id, also when the
\* name has a ':' in it.
C22_CommandRoundTrip ==
    \A c \in Conns : \A n \in CodecNames, i \in ChunkIds :
        ReadChunkCommand(c, n, i) =>
            /\ requested_filename(h[c].data) = n
            /\ requested_chunk_id(h[c].data) = i

\* The same for the names without ':': there the parse gives both back.
CommandRoundTripPlain ==
    \A c \in Conns : \A n \in CodecNames, i \in ChunkIds :
        (ReadChunkCommand(c, n, i) /\ ":" \notin Range(n)) =>
            /\ requested_filename(h[c].data) = n
            /\ requested_chunk_id(h[c].data) = i

\* ------------------------------------------------ get_remote_file_list
\* the bytes of the payload the handler has sent and recv has not returned
ListUnread(c) ==
    IF Len(sock[c].sent) < 2 THEN 0 ELSE NBytes(sock[c].sent[2]) - ls.received_data

\* the call ends: finally closes the socket
ListReturn(c, result) ==
    /\ sock' = [sock EXCEPT ![c].cli = "closed"]
    /\ ls' = [ls EXCEPT !.pc = "done", !.result = result]

\* get_remote_file_list: connect and send REQUEST_FILE_LIST
LsConnect(c) ==
    /\ ls.pc = "idle"
    /\ h[c].pc \in {"FREE", "CLOSED"}
    /\ h' = [h EXCEPT ![c] = Thread("ACCEPTED", 0)]
    /\ sock' = [sock EXCEPT ![c] = [NewSock(HOST_YGGDRASIL_IP) EXCEPT
                                       !.c2s = REQUEST_FILE_LIST, !.nsent = 1]]
    /\ ls' = [ls EXCEPT !.pc = "header", !.conn = c]
    /\ UNCHANGED <<server_vars, gossip_vars, dpc, chunks, di, parts, outfile,
                   received_bytes, hasher, results, dlog>>

\* get_remote_file_list: connect raises, except returns {}
LsConnectFails ==
    /\ ls.pc = "idle"
    /\ ls' = [ls EXCEPT !.pc = "done", !.result = "empty"]
    /\ UNCHANGED <<server_vars, handler_vars, gossip_vars, dpc, chunks, di, parts, outfile,
                   received_bytes, hasher, results, dlog>>

\* get_remote_file_list: header_data = recv(1024).decode().strip(); with
\* LIST_SIZE: the size is parsed (int raises on what is no number) and READY
\* sent; anything else returns {}
LsHeader(c) ==
    /\ ls.pc = "header"
    /\ ls.conn = c
    /\ sock[c].sent # <<>> \/ sock[c].closed
    /\ LET header_data == IF sock[c].sent # <<>> THEN Strip(sock[c].sent[1].text) ELSE <<>>
       IN  IF /\ StartsWith(header_data, <<"LIST_SIZE", ":">>)
              /\ IsIntText(Split(header_data)[2])
           THEN /\ sock' = [sock EXCEPT ![c].c2s = @ \o READY, ![c].nsent = 2]
                /\ ls' = [ls EXCEPT !.size = ParseInt(Split(header_data)[2]),
                                    !.received_data = 0,
                                    !.pc = IF 0 < ParseInt(Split(header_data)[2])
                                           THEN "recv" ELSE "loads"]
           ELSE ListReturn(c, "empty")
    /\ UNCHANGED <<server_vars, gossip_vars, h, dpc, chunks, di, parts, outfile,
                   received_bytes, hasher, results, dlog>>

\* get_remote_file_list: packet = recv(4096) returns some of the bytes that
\* have arrived, or nothing when the handler has closed and none is left
\* (break)
LsRecv(c) ==
    /\ ls.pc = "recv"
    /\ ls.conn = c
    /\ ListUnread(c) > 0 \/ sock[c].closed
    /\ IF ListUnread(c) > 0
       THEN \E k \in 1..Min(RecvBuf, ListUnread(c)) :
              ls' = [ls EXCEPT !.received_data = @ + k,
                               !.pc = IF ls.received_data + k < ls.size
                                      THEN "recv" ELSE "loads"]
       ELSE ls' = [ls EXCEPT !.pc = "loads"]
    /\ UNCHANGED <<server_vars, handler_vars, gossip_vars, dpc, chunks, di, parts, outfile,
                   received_bytes, hasher, results, dlog>>

\* get_remote_file_list: json.loads of what was received gives the index when
\* all of the payload is there and raises otherwise (except returns {})
LsLoads(c) ==
    /\ ls.pc = "loads"
    /\ ls.conn = c
    /\ ListReturn(c, IF Len(sock[c].sent) = 2 /\ ListUnread(c) = 0 THEN "index" ELSE "empty")
    /\ UNCHANGED <<server_vars, gossip_vars, h, dpc, chunks, di, parts, outfile,
                   received_bytes, hasher, results, dlog>>

\* ------------------------------------- a client and a handler, scheduled
\* Either start_download_manager is at its call of get_remote_file_list, the
\* peer's storage in any of its states, or it is at its download loop with
\* the descriptors as the peer listed them, the peer's file changed or not
\* since.
InitExchange ==
    \/ /\ \E st \in ServerStorage : index = st.index /\ disk = st.disk
       /\ peerFile = PeerFileOf(<<"L">>)
       /\ saved = FALSE
       /\ InitHandlers(1)
       /\ InitNoGossip
       /\ dpc = "off"
       /\ chunks = <<>>
       /\ di = 0
       /\ parts = <<>>
       /\ outfile = NoFile
       /\ received_bytes = 0
       /\ hasher = <<>>
       /\ results = <<>>
       /\ dlog = NoLog
       /\ ls = [NoList EXCEPT !.pc = "idle"]
    \/ /\ \E b \in ClientFiles : \E pb \in PeerFilesFor(b) :
            /\ chunks = IndexFile(b).chunks
            /\ parts \in InitParts(b, IndexFile(b).chunks)
            /\ index = IndexOf(<<PlaceholderFile, Named(NameA, IndexFile(pb))>>)
            /\ \E f \in {File(pb), File(Truncated(pb)), NoFile} :
                 disk = (NameT :> File(TestDoc)) @@ (NameA :> f)
       /\ peerFile = PeerFileOf(<<"L">>)
       /\ saved = FALSE
       /\ InitHandlers(1)
       /\ InitNoGossip
       /\ dpc = "loop"
       /\ di = 1
       /\ outfile = NoFile
       /\ received_bytes = 0
       /\ hasher = <<>>
       /\ results = <<>>
       /\ dlog = NoLog
       /\ ls = [NoList EXCEPT !.pc = "done", !.result = "index"]

\* the steps of the client program
ClientNext ==
    \/ \E c \in Conns : LsConnect(c)
    \/ LsConnectFails
    \/ \E c \in Conns : LsHeader(c)
    \/ \E c \in Conns : LsRecv(c)
    \/ \E c \in Conns : LsLoads(c)
    \/ DlResume
    \/ \E c \in Conns : DlConnect(c)
    \/ DlConnectFails
    \/ \E c \in Conns : DlHeader(c)
    \/ \E c \in Conns : DlRecv(c)
    \/ \E c \in Conns : DlRecvEof(c)
    \/ \E c \in Conns : DlVerify(c)
    \/ DlReassemble

\* the steps of the handler thread of connection c
ExchangeHandler(c) ==
    \/ HStart(c)
    \/ HReadCommand(c)
    \/ HList(c)
    \/ HChunk(c)
    \/ HAck(c)
    \/ HClose(c)

NextExchange ==
    \/ ClientNext
    \/ \E c \in Conns : ExchangeHandler(c)

\* The client program and the handler thread are each scheduled again and
\* again while they have a step to take.
SpecExchange ==
    /\ InitExchange
    /\ [][NextExchange]_vars
    /\ WF_vars(ClientNext)
    /\ WF_vars(ExchangeHandler(1))

\* ---------------------------------- claims: the exchange does not hang
\* the client is in a recv on connection c that has nothing to return
ClientBlocked(c) ==
    \/ /\ ls.conn = c
       /\ \/ ls.pc = "header" /\ sock[c].sent = <<>>
          \/ ls.pc = "recv" /\ ListUnread(c) = 0
       /\ ~sock[c].closed
    \/ /\ \/ dpc = "header" /\ sock[c].sent = <<>>
          \/ dpc = "recv" /\ Unread(c) = <<>>
       /\ ~sock[c].closed
\* the handler of c is in a recv that has nothing to return
ServerBlocked(c) ==
    /\ \/ h[c].pc = "READ_COMMAND"
       \/ h[c].pc = "RESPOND" /\ h[c].step = "ack"
    /\ ~RecvReady(c)
\* both ends of connection c are closed
BothClosed(c) == sock[c].closed /\ sock[c].cli = "closed"

\* C23: get_remote_file_list or download_chunk and the handler never both
\* wait in a recv with nothing in flight and neither end closed, and every
\* exchange that has begun ends with both sockets closed, also when the
\* handler sends fewer bytes than the descriptor's size or an ERROR header.
C23_ExchangeEnds ==
    /\ [](\A c \in Conns : ~(ClientBlocked(c) /\ ServerBlocked(c)))
    /\ \A c \in 1..1 : Active(c) ~> BothClosed(c)

\* a chunk exchange in which the handler sent fewer bytes than the
\* descriptor's size, or an ERROR header, has ended with both sockets closed
C23_Witness ==
    \E c \in Conns :
        /\ BothClosed(c)
        /\ dpc = "aborted"
        /\ \/ Len(sock[c].sent) = 2 /\ received_bytes < Current.size
           \/ Len(sock[c].sent) = 1 /\ IsError(sock[c].sent[1])
====
